---- MODULE Spec2Model ----
(***************************************************************************)
(* A model of the APS ILS work-example backend (backend/server.py) and of  *)
(* its seeding script (backend/seed_ils_data.py).                          *)
(*                                                                         *)
(* A Python str / BSON string is a sequence of code points, so that the    *)
(* orders the code relies on (sorted(), the store's sort on a text field)  *)
(* and the pattern match of $regex are computed, not assumed.              *)
(***************************************************************************)
EXTENDS Integers, Sequences, FiniteSets, TLC

VARIABLES
    work_examples,      \* db.work_examples, in the store's natural order
    saved_assessments,  \* db.saved_assessments, in the store's natural order
    ils_reference,      \* db.ils_reference, in the store's natural order
    api_key,            \* os.environ.get('OPENAI_API_KEY')
    now,                \* the wall clock read by datetime.now(timezone.utc)
    uuids,              \* how many uuid4 values have been drawn
    updating,           \* the in-flight update_work_example handlers
    assessing,          \* the in-flight assess_example handler
    seeding,            \* the seed_data runs between their count and insert
    seed_runs,          \* how many seed_data runs have started
    resp                \* what the step just taken answered its caller, if it answered

vars == <<work_examples, saved_assessments, ils_reference, api_key, now, uuids,
          updating, assessing, seeding, seed_runs, resp>>

----------------------------------------------------------------------------
(* Text *)

\* Python's None: a value that is no str (no code point is negative).
None == <<-1>>

\* Python truthiness of an Optional[str]: None and "" are falsy.
Truthy(s) == s # None /\ s # <<>>

Range(s) == {s[i] : i \in 1..Len(s)}

Min(S) == CHOOSE x \in S : \A y \in S : x <= y

\* str.__lt__, and the store's binary comparison of two strings: the first
\* differing code point decides, a proper prefix is smaller.
StrLess(a, b) ==
    LET n == IF Len(a) < Len(b) THEN Len(a) ELSE Len(b)
        d == {i \in 1..n : a[i] # b[i]}
    IN  IF d = {} THEN Len(a) < Len(b) ELSE a[Min(d)] < b[Min(d)]

\* sorted(list(S)) for a set of str.
RECURSIVE sorted(_)
sorted(S) ==
    IF S = {} THEN <<>>
    ELSE LET m == CHOOSE x \in S : \A y \in S \ {x} : StrLess(x, y)
         IN  <<m>> \o sorted(S \ {m})

\* The first n elements of a cursor: to_list(n).
to_list(cursor, n) == SubSeq(cursor, 1, IF Len(cursor) < n THEN Len(cursor) ELSE n)

----------------------------------------------------------------------------
(* datetime: [year, month, day, hour, minute, second, microsecond,         *)
(* utcoffset], utcoffset in minutes (every datetime here is aware).        *)

D2(n) == <<48 + ((n \div 10) % 10), 48 + (n % 10)>>
D4(n) == D2(n \div 100) \o D2(n % 100)
D6(n) == D2(n \div 10000) \o D4(n % 10000)

\* isoformat gone wrong: the text is cut at the seconds.
isoformatSeconds(dt) ==
    LET off == IF dt.utcoffset < 0 THEN 0 - dt.utcoffset ELSE dt.utcoffset
    IN  D4(dt.year) \o <<45>> \o D2(dt.month) \o <<45>> \o D2(dt.day) \o <<84>>
        \o D2(dt.hour) \o <<58>> \o D2(dt.minute) \o <<58>> \o D2(dt.second)
        \o <<IF dt.utcoffset < 0 THEN 45 ELSE 43>>
        \o D2(off \div 60) \o <<58>> \o D2(off % 60)

\* datetime.isoformat(): YYYY-MM-DDTHH:MM:SS[.ffffff]+HH:MM, the fraction left
\* out when microsecond is 0.
isoformat(dt) ==
    LET off == IF dt.utcoffset < 0 THEN 0 - dt.utcoffset ELSE dt.utcoffset
    IN  D4(dt.year) \o <<45>> \o D2(dt.month) \o <<45>> \o D2(dt.day) \o <<84>>
        \o D2(dt.hour) \o <<58>> \o D2(dt.minute) \o <<58>> \o D2(dt.second)
        \o (IF dt.microsecond # 0 THEN <<46>> \o D6(dt.microsecond) ELSE <<>>)
        \o <<IF dt.utcoffset < 0 THEN 45 ELSE 43>>
        \o D2(off \div 60) \o <<58>> \o D2(off % 60)

RECURSIVE Num(_, _, _)
\* int(s[i..j]) for a run of decimal digits.
Num(s, i, j) == IF j < i THEN 0 ELSE 10 * Num(s, i, j - 1) + (s[j] - 48)

\* datetime.fromisoformat() on the texts isoformat() writes.
fromisoformat(s) ==
    LET frac == Len(s) >= 20 /\ s[20] = 46
        p    == IF frac THEN 27 ELSE 20
        off  == 60 * Num(s, p + 1, p + 2) + Num(s, p + 4, p + 5)
    IN  [year |-> Num(s, 1, 4), month |-> Num(s, 6, 7), day |-> Num(s, 9, 10),
         hour |-> Num(s, 12, 13), minute |-> Num(s, 15, 16),
         second |-> Num(s, 18, 19),
         microsecond |-> IF frac THEN Num(s, 21, 26) ELSE 0,
         utcoffset |-> IF s[p] = 45 THEN 0 - off ELSE off]

\* Days since 1970-01-01 of a civil date (proleptic Gregorian).
DaysFromCivil(y, m, d) ==
    LET yy  == IF m <= 2 THEN y - 1 ELSE y
        era == yy \div 400
        yoe == yy - era * 400
        mp  == (m + 9) % 12
        doy == ((153 * mp + 2) \div 5) + d - 1
        doe == yoe * 365 + (yoe \div 4) - (yoe \div 100) + doy
    IN  era * 146097 + doe - 719468

\* The instant an aware datetime denotes: <<UTC minutes since the epoch,
\* second, microsecond>>.  Aware datetimes compare by it.
Instant(dt) ==
    <<DaysFromCivil(dt.year, dt.month, dt.day) * 1440 + dt.hour * 60 + dt.minute
        - dt.utcoffset, dt.second, dt.microsecond>>

\* a <= b on instants.
InstantLeq(a, b) ==
    \/ a[1] < b[1]
    \/ a[1] = b[1] /\ a[2] < b[2]
    \/ a[1] = b[1] /\ a[2] = b[2] /\ a[3] <= b[3]

----------------------------------------------------------------------------
(* The document store (the motor collection calls the handlers make).      *)
(* A collection is the sequence of its documents in natural order; the     *)
(* store's own "_id", which every read projects away, is left out.         *)

\* The fields of a stored WorkExample that hold arrays.
ArrayFields == {"capabilities", "behaviours", "tags"}

\* str.lower() of one ASCII code point, as the "i" option folds case.
Lower(c) == IF 65 <= c /\ c <= 90 THEN c + 32 ELSE c

\* The pattern language of $regex, for patterns over letters, digits, '.',
\* '*' and '(': the atoms of a pattern, each a code point with its star.
RECURSIVE Atoms(_)
Atoms(p) ==
    IF p = <<>> THEN <<>>
    ELSE IF Len(p) >= 2 /\ p[2] = 42
         THEN <<[ch |-> p[1], star |-> TRUE]>> \o Atoms(SubSeq(p, 3, Len(p)))
         ELSE <<[ch |-> p[1], star |-> FALSE]>> \o Atoms(Tail(p))

\* Whether the store compiles the pattern: an unclosed '(' and a '*' with
\* nothing to repeat are rejected, and the find fails.
RegexValid(p) == \A i \in 1..Len(Atoms(p)) : Atoms(p)[i].ch \notin {40, 42}

\* '.' matches any code point but a line feed; any other atom matches itself,
\* case folded.
AtomMatches(a, c) == IF a.ch = 46 THEN c # 10 ELSE Lower(a.ch) = Lower(c)

RECURSIVE MatchHere(_, _, _, _)
\* The atoms from the i-th on match a run of text that starts at j.
MatchHere(atoms, i, text, j) ==
    IF i > Len(atoms) THEN TRUE
    ELSE IF atoms[i].star
         THEN \E k \in j..(Len(text) + 1) :
                 /\ \A m \in j..(k - 1) : AtomMatches(atoms[i], text[m])
                 /\ MatchHere(atoms, i + 1, text, k)
         ELSE /\ j <= Len(text)
              /\ AtomMatches(atoms[i], text[j])
              /\ MatchHere(atoms, i + 1, text, j + 1)

\* {"$regex": p, "$options": "i"}: the pattern matches somewhere in text.
RegexSearch(p, text) ==
    \E j \in 1..(Len(text) + 1) : MatchHere(Atoms(p), 1, text, j)

\* A query is a function from its keys to their values.  A field condition
\* {k: v} holds when the field equals v or, for an array field, holds v; "$or"
\* holds when one of its regex conditions does.
Matches(doc, query) ==
    \A k \in DOMAIN query :
        IF k = "$or"
        THEN \E i \in 1..Len(query[k]) :
                 RegexSearch(query[k][i].regex, doc[query[k][i].field])
        ELSE IF k \in ArrayFields THEN query[k] \in Range(doc[k])
             ELSE doc[k] = query[k]

SelectDocs(coll, query) == SelectSeq(coll, LAMBDA d : Matches(d, query))

\* collection.find(query): the matching documents in natural order.
find(coll, query) == SelectDocs(coll, query)

\* collection.find_one(query): <<the first match>>, or <<>> for None.
find_one(coll, query) == to_list(find(coll, query), 1)

RECURSIVE sortAscending(_, _, _)
\* sort gone wrong: ascending.
sortAscending(cursor, field, direction) ==
    IF cursor = <<>> THEN <<>>
    ELSE LET x    == Head(cursor)
             rest == sortAscending(Tail(cursor), field, direction)
             k    == Cardinality({i \in 1..Len(rest) :
                                    StrLess(rest[i][field], x[field])})
         IN  SubSeq(rest, 1, k) \o <<x>> \o SubSeq(rest, k + 1, Len(rest))

RECURSIVE sort(_, _, _)
\* cursor.sort(field, direction): on the field's text, descending when the
\* direction is -1 and ascending otherwise, documents with equal keys left
\* in natural order.
sort(cursor, field, direction) ==
    IF cursor = <<>> THEN <<>>
    ELSE LET x    == Head(cursor)
             rest == sort(Tail(cursor), field, direction)
             k    == Cardinality({i \in 1..Len(rest) :
                                    IF direction = -1
                                    THEN StrLess(x[field], rest[i][field])
                                    ELSE StrLess(rest[i][field], x[field])})
         IN  SubSeq(rest, 1, k) \o <<x>> \o SubSeq(rest, k + 1, Len(rest))

\* The position of the first document the filter {"id": id} matches, 0 if none.
FirstWithId(coll, id) ==
    LET S == {i \in 1..Len(coll) : coll[i].id = id}
    IN  IF S = {} THEN 0 ELSE Min(S)

\* SetFields gone wrong: the update stamps the document anew.
SetFieldsRestamped(doc, update_dict) ==
    [k \in DOMAIN doc |->
        IF k \in DOMAIN update_dict THEN update_dict[k]
        ELSE IF k = "date_created" THEN isoformat(now) ELSE doc[k]]

\* {"$set": update_dict} on one document: the named fields are overwritten,
\* every other field is kept.
SetFields(doc, update_dict) ==
    [k \in DOMAIN doc |->
        IF k \in DOMAIN update_dict THEN update_dict[k] ELSE doc[k]]

\* collection.update_one({"id": id}, {"$set": update_dict}).
update_one(coll, id, update_dict) ==
    LET i == FirstWithId(coll, id)
    IN  IF i = 0 THEN coll
        ELSE [coll EXCEPT ![i] = SetFields(coll[i], update_dict)]

\* collection.delete_one({"id": id}): the collection without the first match.
delete_one(coll, id) ==
    LET i == FirstWithId(coll, id)
    IN  IF i = 0 THEN coll
        ELSE SubSeq(coll, 1, i - 1) \o SubSeq(coll, i + 1, Len(coll))

\* deleted_count gone wrong: a delete that found nothing counts as one.
deleted_countAlways(coll, id) == 1

\* result.deleted_count of that delete_one.
deleted_count(coll, id) == IF FirstWithId(coll, id) = 0 THEN 0 ELSE 1

\* The limit every listing of work_examples and saved_assessments passes to
\* to_list.
ListLimit == 1000

\* str(uuid.uuid4()): the n-th value drawn, as text ("u0001", "u0002", ...).
uuid4(n) == <<117>> \o D4(n)

----------------------------------------------------------------------------
(* The work-example handlers.  A handler that makes one store call is one   *)
(* action; update_work_example makes three and is one action per call.     *)

\* Upper bound of the model: how many uuid4 values are drawn.
MaxUuids == 2

\* The update_work_example calls that may be in flight together.
Handlers == {1, 2}

\* A step that answers no caller.
NoResponse == [op |-> "none", args |-> <<>>, status |-> 0, body |-> <<>>]

\* What the work-example handlers leave alone.
others == <<saved_assessments, ils_reference, api_key, assessing, seeding, seed_runs>>

\* example.get(key, default)
Get(doc, key, default) == IF key \in DOMAIN doc THEN doc[key] ELSE default

\* WorkExampleCreate(**body): the three lists are [] when the body leaves them
\* out.
WorkExampleCreate(body) ==
    [title |-> body.title, example_text |-> body.example_text, role |-> body.role,
     aps_level |-> body.aps_level,
     capabilities |-> Get(body, "capabilities", <<>>),
     behaviours |-> Get(body, "behaviours", <<>>),
     tags |-> Get(body, "tags", <<>>)]

\* WorkExample(**example.model_dump()): the request's fields, a fresh id and
\* the current time.
WorkExample(example, id, date_created) ==
    [id |-> id, title |-> example.title, example_text |-> example.example_text,
     role |-> example.role, aps_level |-> example.aps_level,
     capabilities |-> example.capabilities, behaviours |-> example.behaviours,
     tags |-> example.tags, date_created |-> date_created]

\* The read paths' loop: date_created, stored as text, parsed back.
ParseDates(docs) ==
    [i \in 1..Len(docs) |->
        [docs[i] EXCEPT !.date_created = fromisoformat(@)]]

\* POST /work-examples
create_work_example(example) ==
    /\ LET work_example == WorkExample(example, uuid4(uuids + 1), now)
           example_dict == [work_example EXCEPT !.date_created = isoformat(@)]
       IN  /\ work_examples' = Append(work_examples, example_dict)
           /\ resp' = [op |-> "create_work_example", args |-> <<example>>,
                       status |-> 200, body |-> work_example]
    /\ uuids' = uuids + 1
    /\ UNCHANGED <<now, updating, others>>

\* The query get_work_examples builds from its parameters.
ListQuery(aps_level, capability, behaviour, tag, search) ==
    (IF Truthy(aps_level) THEN "aps_level" :> aps_level ELSE <<>>)
    @@ (IF Truthy(capability) THEN "capabilities" :> capability ELSE <<>>)
    @@ (IF Truthy(behaviour) THEN "behaviours" :> behaviour ELSE <<>>)
    @@ (IF Truthy(tag) THEN "tags" :> tag ELSE <<>>)
    @@ (IF Truthy(search)
        THEN "$or" :> <<[field |-> "title", regex |-> search],
                        [field |-> "example_text", regex |-> search]>>
        ELSE <<>>)

\* What GET /work-examples answers on a collection: the store rejects a
\* pattern it cannot compile and the handler answers 500.
ListWorkExamples(coll, aps_level, capability, behaviour, tag, search) ==
    LET query == ListQuery(aps_level, capability, behaviour, tag, search)
    IN  IF Truthy(search) /\ ~RegexValid(search)
        THEN [status |-> 500, body |-> <<>>]
        ELSE [status |-> 200,
              body |-> ParseDates(to_list(sort(find(coll, query), "date_created", -1),
                                          ListLimit))]

\* GET /work-examples
get_work_examples(aps_level, capability, behaviour, tag, search) ==
    /\ LET r == ListWorkExamples(work_examples, aps_level, capability, behaviour,
                                 tag, search)
       IN  resp' = [op |-> "get_work_examples",
                    args |-> <<aps_level, capability, behaviour, tag, search>>,
                    status |-> r.status, body |-> r.body]
    /\ UNCHANGED <<work_examples, now, uuids, updating, others>>

\* What GET /work-examples/{example_id} answers on a collection.
GetWorkExample(coll, example_id) ==
    LET example == find_one(coll, "id" :> example_id)
    IN  IF example = <<>> THEN [status |-> 404, body |-> <<>>]
        ELSE [status |-> 200, body |-> ParseDates(example)[1]]

\* GET /work-examples/{example_id}
get_work_example(example_id) ==
    /\ LET r == GetWorkExample(work_examples, example_id)
       IN  resp' = [op |-> "get_work_example", args |-> <<example_id>>,
                    status |-> r.status, body |-> r.body]
    /\ UNCHANGED <<work_examples, now, uuids, updating, others>>

\* PUT /work-examples/{example_id}, its first store call: find_one, and the
\* 404 when nothing is found.
update_work_example_find(h, example_id, example) ==
    /\ updating[h].pc = "idle"
    /\ LET existing == find_one(work_examples, "id" :> example_id)
       IN  IF existing = <<>>
           THEN /\ resp' = [op |-> "update_work_example",
                            args |-> <<example_id, example>>,
                            status |-> 404, body |-> <<>>]
                /\ UNCHANGED updating
           ELSE /\ updating' = [updating EXCEPT ![h] =
                        [pc |-> "update_one", example_id |-> example_id,
                         example |-> example]]
                /\ resp' = NoResponse
    /\ UNCHANGED <<work_examples, now, uuids, others>>

\* Its second store call: update_one with the request's fields.
update_work_example_update(h) ==
    /\ updating[h].pc = "update_one"
    /\ work_examples' = update_one(work_examples, updating[h].example_id,
                                   updating[h].example)
    /\ updating' = [updating EXCEPT ![h].pc = "find_one"]
    /\ resp' = NoResponse
    /\ UNCHANGED <<now, uuids, others>>

\* Its third store call: find_one again, and the answer.  updated is None
\* when the document is gone; subscripting it raises, and the handler's
\* except clause answers 500.
update_work_example_return(h) ==
    /\ updating[h].pc = "find_one"
    /\ LET updated == find_one(work_examples, "id" :> updating[h].example_id)
       IN  resp' = [op |-> "update_work_example",
                    args |-> <<updating[h].example_id, updating[h].example>>,
                    status |-> IF updated = <<>> THEN 500 ELSE 200,
                    body |-> IF updated = <<>> THEN <<>> ELSE ParseDates(updated)[1]]
    /\ updating' = [updating EXCEPT ![h] = [pc |-> "idle"]]
    /\ UNCHANGED <<work_examples, now, uuids, others>>

\* DELETE /work-examples/{example_id}
delete_work_example(example_id) ==
    /\ work_examples' = delete_one(work_examples, example_id)
    /\ resp' = [op |-> "delete_work_example", args |-> <<example_id>>,
                status |-> IF deleted_count(work_examples, example_id) = 0
                           THEN 404 ELSE 200,
                body |-> <<>>]
    /\ UNCHANGED <<now, uuids, updating, others>>

\* What GET /filters answers on a collection.
FilterOptions(coll) ==
    LET examples == to_list(find(coll, <<>>), ListLimit)
        all(key) == UNION {Range(Get(examples[i], key, <<>>)) : i \in 1..Len(examples)}
    IN  [capabilities |-> sorted(all("capabilities")),
         behaviours |-> sorted(all("behaviours")),
         tags |-> sorted(all("tags")),
         aps_levels |-> sorted({Get(examples[i], "aps_level", <<>>) :
                                   i \in 1..Len(examples)})]

\* GET /filters
get_filter_options ==
    /\ resp' = [op |-> "get_filter_options", args |-> <<>>, status |-> 200,
                body |-> FilterOptions(work_examples)]
    /\ UNCHANGED <<work_examples, now, uuids, updating, others>>

\* The readings the wall clock takes, all UTC.
Reading(hour, minute, second, microsecond) ==
    [year |-> 2024, month |-> 1, day |-> 1, hour |-> hour, minute |-> minute,
     second |-> second, microsecond |-> microsecond, utcoffset |-> 0]

ClockReadings ==
    {Reading(9, 59, 59, 999999), Reading(10, 0, 0, 0), Reading(10, 0, 0, 1)}

\* Time passes.
Tick ==
    /\ \E t \in ClockReadings :
          /\ Instant(t) # Instant(now)
          /\ InstantLeq(Instant(now), Instant(t))
          /\ now' = t
    /\ resp' = NoResponse
    /\ UNCHANGED <<work_examples, uuids, updating, others>>

----------------------------------------------------------------------------
(* The service from an empty database: work examples are created, read,    *)
(* updated and deleted, by callers that may overlap.                       *)

\* Texts the callers send: "APS6", "EL1", "ab", "B", "t", "u",
\* "nonexistent-id" is shortened to "no".
APS6 == <<65, 80, 83, 54>>
EL1 == <<69, 76, 49>>
T_ab == <<97, 98>>
T_B == <<66>>
T_t == <<116>>
T_u == <<117>>
NoSuchId == <<110, 111>>

Example1 ==
    [title |-> T_ab, example_text |-> T_B, role |-> T_t, aps_level |-> APS6,
     capabilities |-> <<T_B>>, behaviours |-> <<>>, tags |-> <<T_t>>]

\* A request that leaves the three lists out: they default to [].
Example2 ==
    [title |-> T_B, example_text |-> <<>>, role |-> <<>>, aps_level |-> EL1,
     capabilities |-> <<>>, behaviours |-> <<>>, tags |-> <<>>]

Examples == {Example1, Example2}

\* The bodies a caller posts: one with every field, and one that leaves the
\* three lists out.
CreateBodies ==
    {Example1,
     [k \in {"title", "example_text", "role", "aps_level"} |-> Example2[k]]}

\* The ids a caller may name: every id the service may have issued, and one
\* it never issues.
Ids == {uuid4(n) : n \in 1..MaxUuids} \cup {NoSuchId}

Init ==
    /\ work_examples = <<>>
    /\ saved_assessments = <<>>
    /\ ils_reference = <<>>
    /\ api_key = None
    /\ now = Reading(9, 59, 59, 999999)
    /\ uuids = 0
    /\ updating = [h \in Handlers |-> [pc |-> "idle"]]
    /\ assessing = [pc |-> "idle"]
    /\ seeding = 0
    /\ seed_runs = 0
    /\ resp = NoResponse

Next ==
    \/ /\ uuids < MaxUuids
       /\ \E body \in CreateBodies : create_work_example(WorkExampleCreate(body))
    \/ \E aps_level \in {None, APS6} :
          get_work_examples(aps_level, None, None, None, None)
    \/ \E id \in Ids : get_work_example(id)
    \/ \E id \in Ids, example \in Examples : update_work_example_find(1, id, example)
    \/ update_work_example_update(1)
    \/ update_work_example_return(1)
    \/ \E id \in Ids : delete_work_example(id)
    \/ Tick

Spec == Init /\ [][Next]_vars

----------------------------------------------------------------------------
(* Properties of Spec *)

\* The ids of the documents of a list.
IdsOf(docs) == {docs[i].id : i \in 1..Len(docs)}

\* The positions of the documents of a collection that carry an id.
WithId(coll, id) == {i \in 1..Len(coll) : coll[i].id = id}

\* The seven fields of a request, as a stored or returned document has them.
FieldsEqual(doc, example) ==
    /\ doc.title = example.title
    /\ doc.example_text = example.example_text
    /\ doc.role = example.role
    /\ doc.aps_level = example.aps_level
    /\ doc.capabilities = example.capabilities
    /\ doc.behaviours = example.behaviours
    /\ doc.tags = example.tags

\* C1: when update_work_example(id, p) has succeeded, the stored document with
\* that id has every one of title, example_text, role, aps_level, capabilities,
\* behaviours and tags equal to p; the write changes those fields of that
\* document alone and leaves its id, its date_created and every other
\* document as they were; no step changes the date_created of a stored id.
C1_UpdateReplacesFields ==
    /\ [](resp.op = "update_work_example" /\ resp.status = 200 =>
             /\ WithId(work_examples, resp.args[1]) # {}
             /\ \A i \in WithId(work_examples, resp.args[1]) :
                   FieldsEqual(work_examples[i], resp.args[2]))
    /\ [][/\ \A h \in Handlers :
                updating[h].pc = "update_one" /\ updating'[h].pc = "find_one" =>
                   /\ Len(work_examples') = Len(work_examples)
                   /\ \A i \in 1..Len(work_examples) :
                         IF work_examples[i].id = updating[h].example_id
                         THEN /\ work_examples'[i].id = work_examples[i].id
                              /\ work_examples'[i].date_created
                                    = work_examples[i].date_created
                              /\ FieldsEqual(work_examples'[i], updating[h].example)
                         ELSE work_examples'[i] = work_examples[i]
          /\ \A i \in 1..Len(work_examples), j \in 1..Len(work_examples') :
                work_examples[i].id = work_examples'[j].id =>
                   work_examples[i].date_created = work_examples'[j].date_created
         ]_vars

\* An update has succeeded on a document created at an earlier reading of the
\* clock, with its fields replaced, next to another document.
C1_Witness ==
    /\ resp.op = "update_work_example" /\ resp.status = 200
    /\ resp.args[2] = Example2
    /\ resp.body.date_created # now
    /\ \E i \in 1..Len(work_examples) :
          work_examples[i].id # resp.args[1] /\ FieldsEqual(work_examples[i], Example1)

\* C3: delete_work_example of an id no stored document has answers 404 and
\* leaves the collection as it was; of an id that is stored it answers 200 and
\* takes out that document and no other, and a get of the id then answers 404
\* and a list does not hold it.
C3_Delete ==
    [][resp'.op = "delete_work_example" =>
          LET id == resp'.args[1]
          IN  IF WithId(work_examples, id) = {}
              THEN resp'.status = 404 /\ work_examples' = work_examples
              ELSE /\ resp'.status = 200
                   /\ WithId(work_examples', id) = {}
                   /\ work_examples' = SelectSeq(work_examples, LAMBDA d : d.id # id)
                   /\ Len(work_examples') = Len(work_examples) - 1
                   /\ GetWorkExample(work_examples', id).status = 404
                   /\ id \notin IdsOf(ListWorkExamples(work_examples', None, None, None,
                                                        None, None).body)
         ]_vars

\* A delete has succeeded and left another document behind.
C3_Witness ==
    /\ resp.op = "delete_work_example" /\ resp.status = 200
    /\ work_examples # <<>>

\* C4: update_work_example ends by returning the WorkExample with that id, or
\* with 404 when no document has that id.
C4_UpdateOutcome ==
    resp.op = "update_work_example" =>
        \/ resp.status = 200 /\ resp.body.id = resp.args[1]
        \/ resp.status = 404 /\ WithId(work_examples, resp.args[1]) = {}

\* C8: what get_work_examples returns is in descending order of date_created
\* as an instant: an example whose creation time is later never comes after
\* one whose creation time is earlier.
C8_ListNewestFirst ==
    resp.op = "get_work_examples" /\ resp.status = 200 =>
        \A i, j \in 1..Len(resp.body) :
            i < j => InstantLeq(Instant(resp.body[j].date_created),
                                Instant(resp.body[i].date_created))

\* A list holds an example created at 10:00:00.000001 before one created at
\* 10:00:00, whose stored text has no fraction.
C8_Witness ==
    /\ resp.op = "get_work_examples" /\ resp.status = 200
    /\ Len(resp.body) >= 2
    /\ resp.body[1].date_created = Reading(10, 0, 0, 1)
    /\ resp.body[2].date_created = Reading(10, 0, 0, 0)

\* Creating and reading back: the bodies are posted at the readings of the
\* clock, and the examples are read, updated to Example1 and deleted.
NextCreate ==
    \/ /\ uuids < MaxUuids
       /\ \E body \in CreateBodies : create_work_example(WorkExampleCreate(body))
    \/ \E id \in Ids : get_work_example(id)
    \/ \E id \in Ids : update_work_example_find(1, id, Example1)
    \/ update_work_example_update(1)
    \/ update_work_example_return(1)
    \/ \E id \in Ids : delete_work_example(id)
    \/ Tick

SpecCreate == Init /\ [][NextCreate]_vars

\* C14: create_work_example answers 200 and appends one document: its id was
\* never issued before, its date_created reads back as the current time, its
\* fields are the body's, with capabilities, behaviours and tags empty where
\* the body leaves them out; a get_work_example of the returned id right
\* after returns what create returned, field for field, date_created
\* included; and a step that is neither an update's write nor a delete
\* changes what a get of a stored id returns for no id.
C14_CreateThenGet ==
    [][/\ \A body \in CreateBodies :
             resp'.op = "create_work_example"
             /\ resp'.args[1] = WorkExampleCreate(body) =>
                LET n == Len(work_examples)
                IN  /\ resp'.status = 200
                    /\ Len(work_examples') = n + 1
                    /\ SubSeq(work_examples', 1, n) = work_examples
                    /\ LET d == work_examples'[n + 1]
                       IN  /\ d.id = resp'.body.id
                           /\ d.id \notin {uuid4(k) : k \in 1..uuids}
                           /\ fromisoformat(d.date_created) = now
                           /\ resp'.body.date_created = now
                           /\ d.title = body.title
                           /\ d.example_text = body.example_text
                           /\ d.role = body.role
                           /\ d.aps_level = body.aps_level
                           /\ d.capabilities = IF "capabilities" \in DOMAIN body
                                               THEN body.capabilities ELSE <<>>
                           /\ d.behaviours = IF "behaviours" \in DOMAIN body
                                             THEN body.behaviours ELSE <<>>
                           /\ d.tags = IF "tags" \in DOMAIN body
                                       THEN body.tags ELSE <<>>
                           /\ FieldsEqual(resp'.body, d)
       /\ resp.op = "create_work_example" /\ resp'.op = "get_work_example"
          /\ resp'.args[1] = resp.body.id =>
             resp'.status = 200 /\ resp'.body = resp.body
       /\ resp'.op # "delete_work_example"
          /\ (\A h \in Handlers :
                 ~(updating[h].pc = "update_one" /\ updating'[h].pc = "find_one")) =>
             \A id \in IdsOf(work_examples) :
                GetWorkExample(work_examples', id) = GetWorkExample(work_examples, id)
      ]_vars

\* A work example whose body left the lists out, created on the full second
\* (the stored text has no fraction), is read back after time has passed.
C14_Witness ==
    /\ resp.op = "get_work_example" /\ resp.status = 200
    /\ resp.body.date_created = Reading(10, 0, 0, 0)
    /\ now = Reading(10, 0, 0, 1)
    /\ FieldsEqual(resp.body, Example2)

----------------------------------------------------------------------------
(* The listing under its filters: examples are created and deleted, and    *)
(* listed with every combination of the filters below.                     *)

\* More texts: ".", "a*", "(", "b", "a.".
T_dot == <<46>>
T_a_star == <<97, 42>>
T_paren == <<40>>
T_b == <<98>>
T_a_dot == <<97, 46>>

\* An example whose aps_level is the empty string.
Example3 ==
    [title |-> T_a_dot, example_text |-> <<>>, role |-> <<>>, aps_level |-> <<>>,
     capabilities |-> <<T_B>>, behaviours |-> <<T_b>>, tags |-> <<T_u, T_t>>]

LevelFilters == {None, <<>>, APS6, EL1}
CapabilityFilters == {None, T_B}
BehaviourFilters == {None, T_b}
TagFilters == {None, T_t}
SearchFilters == {None, T_b, T_B, T_ab, T_dot, T_a_star, T_paren}

NextFilter ==
    \/ /\ uuids < MaxUuids
       /\ \E example \in Examples \cup {Example3} : create_work_example(example)
    \/ \E id \in Ids : delete_work_example(id)
    \/ \E aps_level \in LevelFilters, capability \in CapabilityFilters,
          behaviour \in BehaviourFilters, tag \in TagFilters,
          search \in SearchFilters :
          get_work_examples(aps_level, capability, behaviour, tag, search)
    \/ get_filter_options

SpecFilter == Init /\ [][NextFilter]_vars

\* Five filters, all but the k-th absent.
Only(k, value) == [i \in 1..5 |-> IF i = k THEN value ELSE None]

\* The listing of the current collection under five filters.
Listing(f) == ListWorkExamples(work_examples, f[1], f[2], f[3], f[4], f[5])

\* C2: get_work_examples(aps_level=X) returns exactly the stored examples
\* whose aps_level is X, for every X, the empty string too; and two filters
\* supplied together return the intersection of what each returns alone.
C2_FilterExact ==
    resp.op = "get_work_examples" /\ resp.status = 200 =>
        /\ resp.args[1] # None /\ resp.args = Only(1, resp.args[1]) =>
              IdsOf(resp.body) = {work_examples[i].id : i \in
                  {i \in 1..Len(work_examples) :
                      work_examples[i].aps_level = resp.args[1]}}
        /\ \A a, b \in 1..5 :
              /\ a < b
              /\ resp.args[a] # None /\ resp.args[b] # None
              /\ \A k \in 1..5 \ {a, b} : resp.args[k] = None
              => IdsOf(resp.body) = IdsOf(Listing(Only(a, resp.args[a])).body)
                                    \cap IdsOf(Listing(Only(b, resp.args[b])).body)

\* s occurs in text, case folded.
Contains(text, s) ==
    \E j \in 0..(Len(text) - Len(s)) :
        \A i \in 1..Len(s) : Lower(text[j + i]) = Lower(s[i])

\* C9: get_work_examples(search=s) with a non-empty s returns exactly the
\* examples whose title or example_text contains s, case folded, whatever
\* characters s holds.
C9_SearchIsSubstring ==
    /\ resp.op = "get_work_examples"
    /\ Truthy(resp.args[5]) /\ resp.args = Only(5, resp.args[5])
    => /\ resp.status = 200
       /\ IdsOf(resp.body) = {work_examples[i].id : i \in
              {i \in 1..Len(work_examples) :
                  \/ Contains(work_examples[i].title, resp.args[5])
                  \/ Contains(work_examples[i].example_text, resp.args[5])}}

----------------------------------------------------------------------------
(* Saved assessments.  The request body of save_assessment is the          *)
(* SavedAssessment itself: id, example_id and date_created are the         *)
(* caller's when the body has them, and the defaults (a fresh uuid4, None, *)
(* the current time) when it has not.                                      *)

\* Upper bound of the model: how many assessments are saved.
MaxSaved == 2

\* SavedAssessment gone wrong: the server issues the id whatever the body says.
SavedAssessmentOwnId(body, id, date_created) ==
    [id |-> id,
     example_id |-> Get(body, "example_id", None),
     example_text |-> body.example_text,
     assessment_text |-> body.assessment_text,
     date_created |-> Get(body, "date_created", date_created)]

\* SavedAssessment(**body)
SavedAssessment(body, id, date_created) ==
    [id |-> Get(body, "id", id),
     example_id |-> Get(body, "example_id", None),
     example_text |-> body.example_text,
     assessment_text |-> body.assessment_text,
     date_created |-> Get(body, "date_created", date_created)]

\* POST /assessments/save
save_assessment(body) ==
    /\ LET assessment      == SavedAssessment(body, uuid4(uuids + 1), now)
           assessment_dict == [assessment EXCEPT !.date_created = isoformat(@)]
       IN  /\ saved_assessments' = Append(saved_assessments, assessment_dict)
           /\ resp' = [op |-> "save_assessment", args |-> <<body>>, status |-> 200,
                       body |-> [id |-> assessment.id]]
    /\ uuids' = IF "id" \in DOMAIN body THEN uuids ELSE uuids + 1
    /\ UNCHANGED <<work_examples, ils_reference, api_key, now, updating, assessing,
                   seeding, seed_runs>>

\* What GET /assessments answers on a collection.
ListSavedAssessments(coll) ==
    ParseDates(to_list(sort(find(coll, <<>>), "date_created", -1), ListLimit))

\* GET /assessments
get_saved_assessments ==
    /\ resp' = [op |-> "get_saved_assessments", args |-> <<>>, status |-> 200,
                body |-> ListSavedAssessments(saved_assessments)]
    /\ UNCHANGED <<work_examples, saved_assessments, ils_reference, api_key, now,
                   uuids, updating, assessing, seeding, seed_runs>>

\* The timestamps a caller sends: 2024-01-01T10:00:00+10:00, which is
\* 00:00:00 UTC, and 2024-01-01T05:00:00+00:00.
TenAtPlusTen ==
    [year |-> 2024, month |-> 1, day |-> 1, hour |-> 10, minute |-> 0,
     second |-> 0, microsecond |-> 0, utcoffset |-> 600]
FiveAtUtc == Reading(5, 0, 0, 0)

\* The bodies a caller sends; "s1" is an id of the caller's own.
CallerId == <<115, 49>>
TextsOnly == [example_text |-> T_ab, assessment_text |-> T_B]
SavedBodies ==
    {a @@ b @@ c @@ TextsOnly :
        a \in {<<>>, "id" :> CallerId},
        b \in {<<>>, "example_id" :> uuid4(1)},
        c \in {<<>>, "date_created" :> TenAtPlusTen, "date_created" :> FiveAtUtc}}

NextSaved ==
    \/ /\ Len(saved_assessments) < MaxSaved
       /\ \E body \in SavedBodies :
             ("id" \in DOMAIN body \/ uuids < MaxUuids) /\ save_assessment(body)
    \/ get_saved_assessments
    \/ Tick

SpecSaved == Init /\ [][NextSaved]_vars

\* C7: get_saved_assessments returns the saved assessments in descending
\* order of date_created as an instant, whatever UTC offsets the stored
\* timestamps carry.
C7_SavedNewestFirst ==
    resp.op = "get_saved_assessments" =>
        \A i, j \in 1..Len(resp.body) :
            i < j => InstantLeq(Instant(resp.body[j].date_created),
                                Instant(resp.body[i].date_created))

----------------------------------------------------------------------------
(* The reference catalogue and its seeding (seed_ils_data.py).  The texts  *)
(* of the catalogue are only copied and compared for equality, and are     *)
(* kept as strings.                                                        *)

\* One entry of ILS_DATA as the n-th run of the script holds it; its id is a
\* uuid4 drawn when the script is loaded ("r" n k).  Every entry is APS6.
Item(n, k, capability_name, behaviour, description) ==
    [id |-> <<114>> \o D2(n) \o D2(k), capability_name |-> capability_name,
     aps_level |-> APS6, behaviour |-> behaviour, description |-> description]

ILS_DATA(n) ==
    <<
    Item(n, 1, "Supports Strategic Direction",
         "Supports shared purpose and direction",
         "Understands, supports and promotes the organisation's vision, mission, and business objectives. Identifies the relationship between organisational goals and operational tasks. Clearly communicates goals and objectives to others. Understands, supports and communicates the reasons for decisions and recommendations."),
    Item(n, 2, "Supports Strategic Direction",
         "Thinks strategically",
         "Understands the work environment and initiates and develops team goals, strategies and work plans. Identifies broader factors, trends and influences that may impact on the team's work objectives. Considers the ramifications of issues and longer-term impact of own work and work area."),
    Item(n, 3, "Supports Strategic Direction",
         "Harnesses information and opportunities",
         "Gathers and investigates information from diverse sources and explores new ideas and different viewpoints. Uses experience to analyse what information is important and how it should be used. Maintains an awareness of the organisation and keeps self and others well informed on work issues and finds out about best practice approaches."),
    Item(n, 4, "Supports Strategic Direction",
         "Shows judgement, intelligence and commonsense",
         "Undertakes objective, systematic analysis and draws accurate conclusions based on evidence. Recognises the links between interconnected issues. Identifies problems and works to resolve them. Thinks laterally, identifies, implements and promotes improved work practices."),
    Item(n, 5, "Achieves Results",
         "Identifies and uses resources wisely",
         "Reviews project performance and identifies opportunities for improvement. Makes effective use of individual and team capabilities and negotiates responsibility for work outcomes. Is responsive to changes in requirements."),
    Item(n, 6, "Achieves Results",
         "Applies and builds professional expertise",
         "Values specialist expertise and capitalises on the knowledge and skills of others within the organisation. Contributes own expertise to achieve outcomes for the business unit."),
    Item(n, 7, "Achieves Results",
         "Responds positively to change",
         "Establishes clear plans and timeframes for project implementation. Responds in a positive and flexible manner to change and uncertainty. Shares information with others and assists them to adapt."),
    Item(n, 8, "Achieves Results",
         "Takes responsibility for managing work projects to achieve results",
         "Sees projects through to completion. Monitors project progress and adjusts plans as required. Commits to achieving quality outcomes and adheres to documentation procedures. Seeks feedback from supervisor to gauge satisfaction."),
    Item(n, 9, "Supports Productive Working Relationships",
         "Nurtures internal and external relationships",
         "Builds and sustains positive relationships with team members, stakeholders and clients. Proactively offers assistance for a mutually beneficial relationship. Anticipates and is responsive to client and stakeholder needs and expectations."),
    Item(n, 10, "Supports Productive Working Relationships",
         "Listens to, understands and recognises the needs of others",
         "Actively listens to staff, colleagues, clients and stakeholders. Involves others and recognises their contributions. Consults and shares information and ensures others are kept informed of issues. Works collaboratively and operates as an effective team member."),
    Item(n, 11, "Supports Productive Working Relationships",
         "Values individual differences and diversity",
         "Recognises the positive benefits that can be gained from diversity. Encourages the exploration of diverse views and harnesses the benefits of such views. Recognises the different working styles of individuals, and factors this into the management of people and tasks. Tries to see things from different perspectives. Treats people with respect and courtesy."),
    Item(n, 12, "Supports Productive Working Relationships",
         "Shares learning and supports others",
         "Identifies learning opportunities for others and delegates tasks effectively. Agrees clear performance standards and gives timely praise and recognition. Makes time for people and offers full support when required. Provides constructive and regular feedback. Deals with under-performance promptly."),
    Item(n, 13, "Displays Personal Drive and Integrity",
         "Demonstrates public service professionalism and probity",
         "Adopts a principled approach and adheres to the APS Values and Code of Conduct. Acts professionally at all times and operates within the boundaries of organisational processes and legal and public policy constraints. Operates as an effective representative of the organisation in internal forums."),
    Item(n, 14, "Displays Personal Drive and Integrity",
         "Engages with risk and shows personal courage",
         "Provides impartial and forthright advice. Challenges issues constructively and justifies own position when challenged. Acknowledges mistakes and learns from them, and seeks guidance and advice when required."),
    Item(n, 15, "Displays Personal Drive and Integrity",
         "Commits to action",
         "Takes personal responsibility for meeting objectives and progressing work. Shows initiative and does what is required. Commits energy and drive to see that goals are achieved."),
    Item(n, 16, "Displays Personal Drive and Integrity",
         "Promotes and adopts a positive and balanced approach to work",
         "Persists with, and focuses on achieving, objectives even in difficult circumstances. Remains positive and responds to pressure in a calm manner."),
    Item(n, 17, "Displays Personal Drive and Integrity",
         "Demonstrates self awareness and a commitment to personal development",
         "Self-evaluates performance and seeks feedback from others. Communicates areas of strengths and acknowledges development needs. Reflects on own behaviour and recognises the impact on others. Shows commitment to learning and self-development."),
    Item(n, 18, "Communicates with Influence",
         "Communicates clearly",
         "Confidently presents messages in a clear, concise and articulate manner. Focuses on key points and uses appropriate, unambiguous language. Selects the most appropriate medium for conveying information and structures written and oral communication to ensure clarity."),
    Item(n, 19, "Communicates with Influence",
         "Listens, understands and adapts to audience",
         "Seeks to understand the audience and tailors communication style and message accordingly. Listens carefully to others and checks to ensure their views have been understood. Checks own understanding of others' comments and does not allow misunderstandings to linger."),
    Item(n, 20, "Communicates with Influence",
         "Negotiates confidently",
         "Approaches negotiations with a clear understanding of key issues. Understands the desired outcomes. Anticipates and identifies relevant stakeholders' expectations and concerns. Discusses issues credibly and thoughtfully and presents persuasive counter-arguments. Encourages the support of relevant stakeholders.")>>

\* Upper bound of the model: how many runs of the seeding script start.
MaxSeedRuns == 6

\* seed_data, its count_documents: a run that counts a document returns, one
\* that counts none goes on to insert.
seed_data_count ==
    /\ seed_runs < MaxSeedRuns
    /\ seed_runs' = seed_runs + 1
    /\ seeding' = IF Len(ils_reference) > 0 THEN seeding ELSE seeding + 1
    /\ resp' = NoResponse
    /\ UNCHANGED <<work_examples, saved_assessments, ils_reference, api_key, now,
                   uuids, updating, assessing>>

\* seed_data, its insert_many.  The runs are told apart by the order in which
\* they insert.
seed_data_insert ==
    /\ seeding > 0
    /\ seeding' = seeding - 1
    /\ ils_reference' = ils_reference \o ILS_DATA((Len(ils_reference) \div Len(ILS_DATA(1))) + 1)
    /\ resp' = NoResponse
    /\ UNCHANGED <<work_examples, saved_assessments, api_key, now, uuids, updating,
                   assessing, seed_runs>>

----------------------------------------------------------------------------
(* assess_example.  The handler reads the credential, then the catalogue,  *)
(* then calls the language model; calls lists the store and model calls it *)
(* has made.                                                               *)

\* The limit assess_example passes to to_list.
ReferenceLimit == 100

\* One line of the context block.
ContextLine(item) ==
    <<"**", item.capability_name, "** (", item.aps_level, "): ", item.behaviour,
      " - ", item.description, "\n">>

RECURSIVE ContextLines(_)
\* The loop over ils_data.
ContextLines(ils_data) ==
    IF ils_data = <<>> THEN <<>>
    ELSE <<ContextLine(Head(ils_data))>> \o ContextLines(Tail(ils_data))

\* ils_context: the heading, then one line for each item read.
IlsContext(ils_data) ==
    <<<<"\n\n### APS ILS Framework Reference:\n">>>> \o ContextLines(ils_data)

\* assess_example gone wrong: the catalogue is read before the credential is
\* looked at.
assess_example_startReadsFirst(request) ==
    /\ assessing.pc = "idle"
    /\ IF ~Truthy(api_key)
       THEN /\ resp' = [op |-> "assess_example", args |-> <<request>>,
                        status |-> 500, body |-> "Assessment error: 500: API key not configured",
                        calls |-> <<"find">>]
            /\ UNCHANGED assessing
       ELSE /\ assessing' = [pc |-> "find", request |-> request, calls |-> <<>>]
            /\ resp' = NoResponse
    /\ UNCHANGED <<work_examples, saved_assessments, ils_reference, api_key, now,
                   uuids, updating, seeding, seed_runs>>

\* POST /assess, up to its first await: without a credential the handler
\* raises, and its except clause answers 500.
assess_example_start(request) ==
    /\ assessing.pc = "idle"
    /\ IF ~Truthy(api_key)
       THEN /\ resp' = [op |-> "assess_example", args |-> <<request>>,
                        status |-> 500, body |-> "Assessment error: 500: API key not configured",
                        calls |-> <<>>]
            /\ UNCHANGED assessing
       ELSE /\ assessing' = [pc |-> "find", request |-> request, calls |-> <<>>]
            /\ resp' = NoResponse
    /\ UNCHANGED <<work_examples, saved_assessments, ils_reference, api_key, now,
                   uuids, updating, seeding, seed_runs>>

\* The find on ils_reference, the prompt built from what it returned, and the
\* call of the model issued under a session of its own.
assess_example_find ==
    /\ assessing.pc = "find"
    /\ LET request  == assessing.request
           ils_data == to_list(find(ils_reference, "aps_level" :> request.aps_level),
                               ReferenceLimit)
       IN  assessing' = [pc |-> "send_message", request |-> request,
                         assessment_prompt |->
                            [aps_level |-> request.aps_level,
                             ils_context |-> IlsContext(ils_data),
                             example_text |-> request.example_text],
                         session_id |-> uuid4(uuids + 1),
                         calls |-> <<"find", "send_message">>]
    /\ uuids' = uuids + 1
    /\ resp' = NoResponse
    /\ UNCHANGED <<work_examples, saved_assessments, ils_reference, api_key, now,
                   updating, seeding, seed_runs>>

\* The model answers, or the call fails and the except clause answers 500.
assess_example_return(ok) ==
    /\ assessing.pc = "send_message"
    /\ resp' = [op |-> "assess_example", args |-> <<assessing.request>>,
                status |-> IF ok THEN 200 ELSE 500,
                body |-> IF ok THEN [assessment |-> "assessment",
                                     example_text |-> assessing.request.example_text]
                         ELSE "Assessment error",
                calls |-> assessing.calls]
    /\ assessing' = [pc |-> "idle"]
    /\ UNCHANGED <<work_examples, saved_assessments, ils_reference, api_key, now,
                   uuids, updating, seeding, seed_runs>>

\* The credential: unset, set to the empty string, or set ("k").
ApiKeys == {None, <<>>, <<107>>}

\* The requests: a level the catalogue has, one it has not, and null.
AssessmentRequests == [example_text : {T_ab}, aps_level : {APS6, EL1, None}]

InitAssess ==
    /\ work_examples = <<>>
    /\ saved_assessments = <<>>
    /\ ils_reference = <<>>
    /\ api_key \in ApiKeys
    /\ now = Reading(9, 59, 59, 999999)
    /\ uuids = 0
    /\ updating = [h \in Handlers |-> [pc |-> "idle"]]
    /\ assessing = [pc |-> "idle"]
    /\ seeding = 0
    /\ seed_runs = 0
    /\ resp = NoResponse

NextAssess ==
    \/ seed_data_count
    \/ seed_data_insert
    \/ uuids < MaxUuids /\ \E request \in AssessmentRequests : assess_example_start(request)
    \/ assess_example_find
    \/ \E ok \in BOOLEAN : assess_example_return(ok)

SpecAssess == InitAssess /\ [][NextAssess]_vars

\* C5: without a credential assess_example answers 500 in its first step,
\* having called neither the store nor the model, and the three collections
\* are as they were.
C5_NoCredentialNoCalls ==
    [][resp'.op = "assess_example" /\ ~Truthy(api_key) =>
          /\ resp'.status = 500
          /\ resp'.calls = <<>>
          /\ assessing.pc = "idle" /\ assessing'.pc = "idle"
          /\ UNCHANGED <<work_examples, saved_assessments, ils_reference>>
      ]_vars

\* An assessment was refused for want of a credential over a seeded catalogue.
C5_Witness ==
    /\ resp.op = "assess_example" /\ resp.status = 500
    /\ api_key = <<>>
    /\ Len(ils_reference) = Len(ILS_DATA(1))

\* C6: the context block of the prompt holds one line for every stored
\* reference item of the requested level, in the store's order, and no other
\* line, whatever the catalogue holds.
C6_ContextHoldsEveryItem ==
    [][assessing.pc = "find" /\ assessing'.pc = "send_message" =>
          LET want  == SelectSeq(ils_reference,
                          LAMBDA item : item.aps_level = assessing.request.aps_level)
              lines == Tail(assessing'.assessment_prompt.ils_context)
          IN  /\ Len(lines) = Len(want)
              /\ \A i \in 1..Len(lines) :
                    lines[i] = <<"**", want[i].capability_name, "** (",
                                 want[i].aps_level, "): ", want[i].behaviour, " - ",
                                 want[i].description, "\n">>
      ]_vars

\* What tells one catalogue entry from another.
Triple(item) == <<item.capability_name, item.aps_level, item.behaviour>>

\* C16: once seed_data has run, and no run is between its count and its
\* insert, ils_reference holds the entries of ILS_DATA and no other, each
\* (capability_name, aps_level, behaviour) once, however many runs there were
\* and however their steps interleaved.
C16_SeedingIdempotent ==
    seed_runs > 0 /\ seeding = 0 =>
        /\ Len(ils_reference) = Len(ILS_DATA(1))
        /\ {Triple(ils_reference[i]) : i \in 1..Len(ils_reference)}
              = {Triple(ILS_DATA(1)[i]) : i \in 1..Len(ILS_DATA(1))}
        /\ \A i, j \in 1..Len(ils_reference) :
              Triple(ils_reference[i]) = Triple(ils_reference[j]) => i = j

----------------------------------------------------------------------------
(* A large collection: ListLimit examples that name no capability are      *)
(* created, then one that names one, and the filter options are read.      *)

NextBulk ==
    \/ /\ uuids <= ListLimit
       /\ \E example \in (IF uuids < ListLimit THEN {Example2} ELSE {Example1}) :
             create_work_example(example)
    \/ get_filter_options

SpecBulk == Init /\ [][NextBulk]_vars

\* A sequence of texts in strictly ascending order.
StrictlyAscending(seq) ==
    \A i, j \in 1..Len(seq) : i < j => StrLess(seq[i], seq[j])

\* C10: get_filter_options returns four strictly ascending sequences;
\* capabilities, behaviours and tags are each the union of that field over
\* every stored example, aps_levels is the set of their aps_level values (the
\* empty string among them when an example has it); the store is not changed.
C10_FilterOptions ==
    [][resp'.op = "get_filter_options" =>
          LET body == resp'.body
              docs == Range(work_examples)
          IN  /\ UNCHANGED <<work_examples, saved_assessments, ils_reference>>
              /\ StrictlyAscending(body.capabilities)
              /\ StrictlyAscending(body.behaviours)
              /\ StrictlyAscending(body.tags)
              /\ StrictlyAscending(body.aps_levels)
              /\ Range(body.capabilities) = UNION {Range(d.capabilities) : d \in docs}
              /\ Range(body.behaviours) = UNION {Range(d.behaviours) : d \in docs}
              /\ Range(body.tags) = UNION {Range(d.tags) : d \in docs}
              /\ Range(body.aps_levels) = {d.aps_level : d \in docs}
      ]_vars

----------------------------------------------------------------------------
(* Both collections together: work examples are created, updated and       *)
(* deleted while assessments are saved, some of them naming a work example *)
(* and some of them under an id of the caller's own.                       *)

\* The bodies a caller sends here: with or without an id, with or without an
\* example_id, the date left to default; and one that has all three.
StoreBodies ==
    {body \in SavedBodies :
        \/ "date_created" \notin DOMAIN body
        \/ /\ "id" \in DOMAIN body /\ "example_id" \in DOMAIN body
           /\ body.date_created = TenAtPlusTen}

NextStore ==
    \/ uuids < MaxUuids /\ \E example \in Examples : create_work_example(example)
    \/ \E id \in Ids, example \in Examples : update_work_example_find(1, id, example)
    \/ update_work_example_update(1)
    \/ update_work_example_return(1)
    \/ \E id \in Ids : delete_work_example(id)
    \/ /\ Len(saved_assessments) < MaxSaved
       /\ \E body \in StoreBodies :
             ("id" \in DOMAIN body \/ uuids < MaxUuids) /\ save_assessment(body)

SpecStore == Init /\ [][NextStore]_vars

\* The ids of a collection, in the store's order.
IdSeq(coll) == [i \in 1..Len(coll) |-> coll[i].id]

\* seq without its i-th element.
Without(seq, i) == SubSeq(seq, 1, i - 1) \o SubSeq(seq, i + 1, Len(seq))

\* The documents that stay stored over a step keep their ids: the ids of the
\* collection are as before, or one more at the end, or one fewer.
IdsKept(before, after) ==
    \/ IdSeq(after) = IdSeq(before)
    \/ Len(after) = Len(before) + 1 /\ SubSeq(IdSeq(after), 1, Len(before)) = IdSeq(before)
    \/ \E i \in 1..Len(before) : IdSeq(after) = Without(IdSeq(before), i)

\* C11: in work_examples and in saved_assessments no two stored documents
\* have the same id, and no step changes the id of a document that stays
\* stored.
C11_IdsUnique ==
    /\ [](/\ \A i, j \in 1..Len(work_examples) :
                work_examples[i].id = work_examples[j].id => i = j
          /\ \A i, j \in 1..Len(saved_assessments) :
                saved_assessments[i].id = saved_assessments[j].id => i = j)
    /\ [][/\ IdsKept(work_examples, work_examples')
          /\ IdsKept(saved_assessments, saved_assessments')]_vars

\* C12: save_assessment answers 200 with the id of the document it stores,
\* whether or not the body has an example_id and whether or not a work example
\* has that id; the document is the body's (its own id, example_id and
\* date_created where it has them, a null example_id and the current
\* time where it has not) appended to saved_assessments, nothing else of
\* saved_assessments, work_examples or ils_reference changes, and a delete of
\* a work example changes no saved assessment.
C12_SaveAsIs ==
    [][/\ resp'.op = "save_assessment" =>
             LET body == resp'.args[1]
                 n    == Len(saved_assessments)
             IN  /\ resp'.status = 200
                 /\ Len(saved_assessments') = n + 1
                 /\ SubSeq(saved_assessments', 1, n) = saved_assessments
                 /\ LET d == saved_assessments'[n + 1]
                    IN  /\ resp'.body.id = d.id
                        /\ "id" \in DOMAIN body => d.id = body.id
                        /\ d.example_id = IF "example_id" \in DOMAIN body
                                          THEN body.example_id ELSE None
                        /\ d.example_text = body.example_text
                        /\ d.assessment_text = body.assessment_text
                        /\ fromisoformat(d.date_created)
                              = IF "date_created" \in DOMAIN body
                                THEN body.date_created ELSE now
                 /\ UNCHANGED <<work_examples, ils_reference>>
       /\ resp'.op = "delete_work_example" => UNCHANGED saved_assessments
      ]_vars

\* A work example that a saved assessment names has just been deleted; the
\* assessment is still stored, next to one that names no example.
C12_Witness ==
    /\ resp.op = "delete_work_example" /\ resp.status = 200
    /\ \E i, j \in 1..Len(saved_assessments) :
          /\ saved_assessments[i].example_id = resp.args[1]
          /\ saved_assessments[j].example_id = None

----------------------------------------------------------------------------
(* The running service over a seeded catalogue: every handler of the       *)
(* router, the update and the assessment each in their steps.              *)

\* An Optional[str] parameter over the catalogue's texts, which are kept as
\* strings: <<>> is None, <<s>> is the text s.
TruthyText(t) == t # <<>> /\ t[1] # ""

\* The query get_ils_reference builds from its parameters.
IlsQuery(aps_level, capability) ==
    (IF Truthy(aps_level) THEN "aps_level" :> aps_level ELSE <<>>)
    @@ (IF TruthyText(capability) THEN "capability_name" :> capability[1] ELSE <<>>)

\* get_ils_reference gone wrong: what is read is taken out of the catalogue.
get_ils_referenceTakes(aps_level, capability) ==
    /\ resp' = [op |-> "get_ils_reference", args |-> <<aps_level, capability>>,
                status |-> 200,
                body |-> to_list(find(ils_reference, IlsQuery(aps_level, capability)),
                                 ListLimit)]
    /\ ils_reference' = SelectSeq(ils_reference,
                           LAMBDA d : ~Matches(d, IlsQuery(aps_level, capability)))
    /\ UNCHANGED <<work_examples, saved_assessments, api_key, now, uuids,
                   updating, assessing, seeding, seed_runs>>

\* GET /ils-reference
get_ils_reference(aps_level, capability) ==
    /\ resp' = [op |-> "get_ils_reference", args |-> <<aps_level, capability>>,
                status |-> 200,
                body |-> to_list(find(ils_reference, IlsQuery(aps_level, capability)),
                                 ListLimit)]
    /\ UNCHANGED <<work_examples, saved_assessments, ils_reference, api_key, now,
                   uuids, updating, assessing, seeding, seed_runs>>

\* The capability parameters a caller sends: none, the empty string, a
\* capability of the catalogue and one it has not.
CapabilityParams ==
    {<<>>, <<"">>, <<"Supports Strategic Direction">>, <<"Unknown">>}

\* The service starts on the catalogue one run of the seeding script left,
\* with or without a credential.
InitService ==
    /\ work_examples = <<>>
    /\ saved_assessments = <<>>
    /\ ils_reference = ILS_DATA(1)
    /\ api_key \in {None, <<107>>}
    /\ now = Reading(9, 59, 59, 999999)
    /\ uuids = 0
    /\ updating = [h \in Handlers |-> [pc |-> "idle"]]
    /\ assessing = [pc |-> "idle"]
    /\ seeding = 0
    /\ seed_runs = 0
    /\ resp = NoResponse

NextService ==
    \/ uuids < MaxUuids /\ create_work_example(Example1)
    \/ get_work_examples(None, None, None, None, None)
    \/ \E id \in {uuid4(1), NoSuchId} : get_work_example(id)
    \/ \E id \in {uuid4(1), NoSuchId} : update_work_example_find(1, id, Example2)
    \/ update_work_example_update(1)
    \/ update_work_example_return(1)
    \/ \E id \in {uuid4(1), NoSuchId} : delete_work_example(id)
    \/ uuids < MaxUuids /\ assess_example_start([example_text |-> T_ab, aps_level |-> APS6])
    \/ assess_example_find
    \/ \E ok \in BOOLEAN : assess_example_return(ok)
    \/ /\ Len(saved_assessments) < MaxSaved
       /\ save_assessment(("id" :> CallerId) @@ ("example_id" :> uuid4(1)) @@ TextsOnly)
    \/ get_saved_assessments
    \/ \E aps_level \in {None, APS6, EL1}, capability \in CapabilityParams :
          get_ils_reference(aps_level, capability)
    \/ get_filter_options

SpecService == InitService /\ [][NextService]_vars

\* C13: no step of the running service changes ils_reference.
C13_CatalogueReadOnly == [][ils_reference' = ils_reference]_vars

\* The service has read the catalogue for an assessment and answered it,
\* with a work example and a saved assessment stored, and the catalogue is
\* the seeded one.
C13_Witness ==
    /\ resp.op = "assess_example" /\ resp.status = 200
    /\ work_examples # <<>> /\ saved_assessments # <<>>
    /\ ils_reference = ILS_DATA(1)

----------------------------------------------------------------------------
(* Updates that overlap: every handler of Handlers may be between its      *)
(* store calls while another makes its own.  The store applies one call at *)
(* a time.                                                                 *)

NextOverlap ==
    \/ /\ uuids < MaxUuids
       /\ \E body \in CreateBodies : create_work_example(WorkExampleCreate(body))
    \/ \E h \in Handlers, id \in Ids, example \in Examples :
          update_work_example_find(h, id, example)
    \/ \E h \in Handlers : update_work_example_update(h)
    \/ \E h \in Handlers : update_work_example_return(h)

SpecOverlap == Init /\ [][NextOverlap]_vars

\* C15: the WorkExample a successful update_work_example(id, p) returns has
\* title, example_text, role, aps_level, capabilities, behaviours and tags
\* equal to p, whatever other updates of the same id overlap it.
C15_UpdateReturnsOwnPayload ==
    resp.op = "update_work_example" /\ resp.status = 200 =>
        FieldsEqual(resp.body, resp.args[2])

====
